---- MODULE Spec2Model ----
(***************************************************************************)
(* Host-side proving orchestration of the zkVM prover:                     *)
(*   ProverImpl::prove_session  (host/server/prove/prover_impl.rs)         *)
(*   ProverImpl::prove_segment  (host/server/prove/prover_impl.rs)         *)
(*   ProverServer::compress     (host/server/prove/mod.rs)                 *)
(*   get_prover_server, Segment::prepare_globals (host/server/prove/mod.rs)*)
(*   Session::prove, Segment::prove, ProverServer::prove, prove_with_ctx   *)
(*                              (host/server/prove/mod.rs)                 *)
(* The recursion primitives (lift, join, resolve), the receipts' integrity *)
(* checks and get_claim live outside these two files; they are modelled by *)
(* their stated contracts, and every call to them may also fail or return  *)
(* an off-contract receipt.                                                *)
(***************************************************************************)
EXTENDS Integers, Sequences, FiniteSets, TLC

VARIABLES
    call,               \* entry point under analysis: "prove_session", "compress", ...
    hashfn,             \* self.hal_pair.hal.get_hash_suite().name
    session,            \* the &Session argument (NoSession when compress is the entry point)
    pc,                 \* position inside prove_session / compress
    segment,            \* the Segment last resolved from session.segments
    segments,           \* Vec<SegmentReceipt> built by the loop of prove_session
    composite_receipt,  \* Option<CompositeReceipt>: <<>> or <<r>>
    inner_receipt,      \* Option<InnerReceipt>: <<>> or <<r>>
    stack,              \* activation records of compress, innermost last
    log,                \* calls made to hooks, prove_segment, verifiers and recursion, in order
    transcript,         \* steps of the most recent prove_segment call
    faults,             \* number of off-contract results returned by collaborators so far
    result,             \* what the entry point returned: NoResult, Ok(..) or an error
    ctx,                \* the &VerifierContext argument of the entry point
    opts,               \* ProverOpts.hashfn handed to get_prover_server
    is_dev_mode,        \* the process-wide dev-mode flag, as is_dev_mode() reads it
    features,           \* cargo features the crate was compiled with
    server,             \* what get_prover_server returned
    stderr,             \* lines written by eprintln!
    io                  \* the Vec<Elem> built by prepare_globals

vars == <<call, hashfn, session, pc, segment, segments, composite_receipt,
          inner_receipt, stack, log, transcript, faults, result,
          ctx, opts, is_dev_mode, features, server, stderr, io>>

\* What no step of prove_session or compress touches.
Service == <<ctx, opts, is_dev_mode, features, server, stderr>>

(***************************************************************************)
(* Bounds of the model.                                                    *)
(***************************************************************************)
MaxSegs == 3
MaxAssumptions == 2
MaxHooks == 2
MaxFaults == 1
MaxDepth == 2

HashSuites == {"sha-256", "poseidon", "blake2b"}
Journals == {<<>>, << <<>> >>, << <<7, 0>> >>}
InnerSegCounts == {0, 2}
InnerListLens == {0, 1}
Outcomes == {"ok", "err", "bad"}

(***************************************************************************)
(* Claims, digests, receipts and errors.                                   *)
(***************************************************************************)
ReceiptClaim(pre, post, as) == [pre |-> pre, post |-> post, assumptions |-> as]

Digest(c) == <<c.pre, c.post, c.assumptions>>

BogusClaim == ReceiptClaim(-1, -1, <<>>)

SegmentReceipt(index, hf, claim) ==
    [kind |-> "SegmentReceipt", index |-> index, hashfn |-> hf, claim |-> claim]

Succinct(claim) == [kind |-> "Succinct", claim |-> claim]

Composite(segs, as, jd) ==
    [kind |-> "Composite", segments |-> segs, assumptions |-> as, journal_digest |-> jd]

Fake(claim) == [kind |-> "Fake", claim |-> claim]

Groth16(claim) == [kind |-> "Groth16", claim |-> claim]

Err(msg) == [kind |-> "Err", msg |-> msg, session |-> <<>>, receipt |-> <<>>]

MismatchErr(msg, s, r) == [kind |-> "Err", msg |-> msg, session |-> <<s>>, receipt |-> <<r>>]

Ok(v) == [kind |-> "Ok", value |-> v]

NoResult == [kind |-> "None"]

NoSession == [kind |-> "None"]

NoSegment == [kind |-> "None"]

IsErr(r) == r.kind = "Err"

MalformedMsg == "malformed composite receipt has no continuation segment receipts"
FakeMsg == "compressing composite receipts with fake receipt assumptions is not supported"
Groth16Msg == "compressing composite receipts with Groth16 receipt assumptions is not supported"
CompositeMismatchMsg == "session and composite receipt claim do not match"
ReceiptMismatchMsg == "session and receipt claim do not match"

\* A call: the operation, the depth of the compress activation making it
\* (0 outside compress), its arguments and what it returned.
Event(op, level, a, b, out) == [op |-> op, level |-> level, a |-> a, b |-> b, out |-> out]

(***************************************************************************)
(* get_claim of the receipt representations.                               *)
(***************************************************************************)
CompositeClaim(r) ==
    IF r.segments = <<>> THEN BogusClaim
    ELSE ReceiptClaim(r.segments[1].claim.pre,
                      r.segments[Len(r.segments)].claim.post, <<>>)

InnerClaim(r) == IF r.kind = "Composite" THEN CompositeClaim(r) ELSE r.claim

AssumptionDigests(as) == [j \in 1..Len(as) |-> Digest(InnerClaim(as[j]))]

(***************************************************************************)
(* Inputs: composite receipts and sessions.                                *)
(***************************************************************************)
AssumptionBase(base, j) == (base + j) * 10

SegmentClaim(base, i, n, digests) ==
    ReceiptClaim(base + i, base + i + 1, IF i = n - 1 THEN digests ELSE <<>>)

MkComposite(base, n, as, jd) ==
    Composite([k \in 1..n |->
                  SegmentReceipt(k - 1, "poseidon",
                                 SegmentClaim(base, k - 1, n, AssumptionDigests(as)))],
              as, jd)

RECURSIVE InnerReceipts(_, _)
RECURSIVE AssumptionLists(_, _, _)
InnerReceipts(base, d) ==
    {Succinct(ReceiptClaim(base, base + 1, <<>>)),
     Fake(ReceiptClaim(base, base + 1, <<>>)),
     Groth16(ReceiptClaim(base, base + 1, <<>>))}
    \cup (IF d = 0 THEN {}
          ELSE {MkComposite(base, n, as, <<>>) :
                    n \in InnerSegCounts,
                    as \in UNION {AssumptionLists(base, d - 1, len) : len \in InnerListLens}})

AssumptionLists(base, d, len) ==
    IF len = 0 THEN {<<>>}
    ELSE {Append(l, x) : l \in AssumptionLists(base, d, len - 1),
                         x \in InnerReceipts(AssumptionBase(base, len), d)}

\* Well-formed composite receipts handed to compress: lists of up to MaxAssumptions
\* assumptions whose composites nest one level, and single assumptions that
\* nest up to MaxDepth levels.
Reverse(seq) == [k \in 1..Len(seq) |-> seq[Len(seq) + 1 - k]]

WellFormedInputs ==
    {MkComposite(0, n, as, <<>>) :
        n \in 0..MaxSegs,
        as \in UNION {AssumptionLists(0, 1, len) : len \in 0..MaxAssumptions}
              \cup AssumptionLists(0, MaxDepth, 1)}

\* ... and the same receipts with their segment receipts listed backwards.
CompositeInputs ==
    WellFormedInputs \cup {[r EXCEPT !.segments = Reverse(@)] : r \in WellFormedInputs}

Proven(inner) == [kind |-> "Proven", inner |-> inner]

Unresolved(claim) == [kind |-> "Unresolved", claim |-> claim]

AssumptionClaim(a) == IF a.kind = "Proven" THEN InnerClaim(a.inner) ELSE a.claim

\* Assumptions of a session: proven by a succinct, a fake or a composite
\* receipt, or not resolved to a receipt at all.
SessionAssumptionsAt(base) ==
    {Proven(r) : r \in {Succinct(ReceiptClaim(base, base + 1, <<>>)),
                        Fake(ReceiptClaim(base, base + 1, <<>>)),
                        MkComposite(base, 2, <<>>, <<>>)}}
    \cup {Unresolved(ReceiptClaim(base, base + 1, <<>>))}

RECURSIVE SessionAssumptionLists(_)
SessionAssumptionLists(len) ==
    IF len = 0 THEN {<<>>}
    ELSE {Append(l, x) : l \in SessionAssumptionLists(len - 1),
                         x \in SessionAssumptionsAt(AssumptionBase(0, len))}

Segment(index, claim) == [kind |-> "Segment", index |-> index, claim |-> claim]

\* A Session as the executor leaves it: n segment references in index order,
\* the last segment's claim listing the session's assumptions.
MkSession(n, hooks, journal, as) ==
    [kind |-> "Session",
     segments |-> [k \in 1..n |->
                      Segment(k - 1, SegmentClaim(0, k - 1, n,
                                  [j \in 1..Len(as) |-> Digest(AssumptionClaim(as[j]))]))],
     hooks |-> hooks,
     journal |-> journal,
     assumptions |-> as,
     claim |-> ReceiptClaim(0, n, <<>>)]

Sessions ==
    {MkSession(n, h, j, as) :
        n \in 0..MaxSegs, h \in {0, MaxHooks}, j \in Journals,
        as \in UNION {SessionAssumptionLists(len) : len \in 0..MaxAssumptions}}

(***************************************************************************)
(* Recursion primitives and verifiers (external collaborators).            *)
(***************************************************************************)
\* lift keeps the segment receipt's claim.
lift(receipt) == Succinct(receipt.claim)

\* join(a, b): a proves the earlier part, b the part that continues it.
join(a, b) ==
    IF a.claim.post = b.claim.pre
    THEN Succinct(ReceiptClaim(a.claim.pre, b.claim.post, b.claim.assumptions))
    ELSE Err("join: receipts are not adjacent")

\* resolve removes the assumption proven by `assumption` from the head of
\* the conditional claim's assumption list.
resolve(conditional, assumption) ==
    IF /\ conditional.claim.assumptions # <<>>
       /\ Head(conditional.claim.assumptions) = Digest(assumption.claim)
    THEN Succinct([conditional.claim EXCEPT !.assumptions = Tail(@)])
    ELSE Err("resolve: assumption is not the one the conditional claim depends on")

\* What a call to a collaborator returns: its contract's result, an error
\* of its own, or (a fault) a receipt of some other claim.
External(o, contract, name) ==
    CASE o = "ok" -> contract
      [] o = "err" -> Err(name)
      [] OTHER -> Succinct(BogusClaim)

FaultCost(o) == IF o = "bad" THEN 1 ELSE 0

\* verify_integrity_with_context of a composite receipt or of a Receipt:
\* it verifies or not, as the context and the seals decide.
VerifyIntegrity(o, inner) ==
    IF o = "ok" THEN Ok(inner) ELSE Err("verify_integrity: verification failed")

Receipt(inner, journal) == [kind |-> "Receipt", inner |-> inner, journal |-> journal]

JournalBytes(j) == IF j = <<>> THEN <<>> ELSE j[1]

JournalDigest(j) == IF j = <<>> THEN <<>> ELSE << <<"sha", j[1]>> >>

(***************************************************************************)
(* Initial states.                                                         *)
(***************************************************************************)
Frame(receipt) == [receipt |-> receipt, phase |-> "continuation", i |-> 1, j |-> 1, acc |-> <<>>]

\* Verifier contexts a caller can pass: VerifierContext::default() and one
\* configured otherwise.
DefaultCtx == "VerifierContext::default()"

Contexts == {DefaultCtx, "VerifierContext(custom)"}

NoCtx == "none"

\* get_prover_server was not called: the ProverImpl was built by ProverImpl::new.
NoService ==
    /\ opts = ""
    /\ is_dev_mode = FALSE
    /\ features = {}
    /\ server = NoResult
    /\ stderr = <<>>
    /\ io = <<>>

Locals ==
    /\ segment = NoSegment
    /\ segments = <<>>
    /\ composite_receipt = <<>>
    /\ inner_receipt = <<>>
    /\ transcript = <<>>
    /\ faults = 0
    /\ result = NoResult

InitSession ==
    /\ call = "prove_session"
    /\ hashfn \in HashSuites
    /\ session \in Sessions
    /\ ctx \in Contexts
    /\ pc = "resolve"
    /\ stack = <<>>
    /\ log = <<>>
    /\ Locals
    /\ NoService

InitCompress ==
    /\ call = "compress"
    /\ hashfn = "poseidon"
    /\ session = NoSession
    /\ pc = "compress"
    /\ \E r \in CompositeInputs :
          /\ stack = <<Frame(r)>>
          /\ log = <<Event("compress", 1, r, <<>>, NoResult)>>
    /\ ctx = NoCtx
    /\ Locals
    /\ NoService

(***************************************************************************)
(* ProverServer::compress.                                                 *)
(***************************************************************************)
Top == stack[Len(stack)]

SetTop(f) == [stack EXCEPT ![Len(stack)] = f]

\* Mutant of CompressFail: the error is replaced by one of the caller's own.
CompressFailGeneric(e) ==
    /\ stack' = <<>>
    /\ pc' = "done"
    /\ result' = Err("compress failed")
    /\ inner_receipt' = inner_receipt

\* An error leaves every activation of compress through `?`; the entry
\* point returns it.
CompressFail(e) ==
    /\ stack' = <<>>
    /\ pc' = "done"
    /\ result' = e
    /\ inner_receipt' = inner_receipt

\* The outermost compress returns: to its caller when compress is the entry
\* point, into InnerReceipt::Succinct inside prove_session.
CompressDone(r) ==
    /\ stack' = <<>>
    /\ IF call = "compress"
       THEN /\ pc' = "done"
            /\ result' = Ok(r)
            /\ inner_receipt' = inner_receipt
       ELSE /\ pc' = "wrap"
            /\ result' = result
            /\ inner_receipt' = <<r>>

\* Mutant of FoldArgs: the arguments of join exchanged.
FoldArgsSwapped(left, lifted) == <<lifted, left>>

\* self.join(&left, &self.lift(right)?): (earlier, later) as passed to join.
FoldArgs(left, lifted) == <<left, lifted>>

\* Mutant of ContinuationDone: of several segment receipts the last is left out.
ContinuationDoneEarly(f) ==
    IF f.i > 1 THEN f.i >= Len(f.receipt.segments) ELSE f.i > Len(f.receipt.segments)

\* The continuation fold has consumed every segment receipt.
ContinuationDone(f) == f.i > Len(f.receipt.segments)

\* Mutant of AssumptionsDone: the assumption fold is left out.
AssumptionsDoneAtOnce(f) == TRUE

\* The assumption fold has consumed every assumption.
AssumptionsDone(f) == f.j > Len(f.receipt.assumptions)

\* The assumption the fold is at: receipt.assumptions.iter(), in listed order.
AssumptionAt(f) == f.receipt.assumptions[f.j]

\* Mutant of ResolveArgs: the arguments of resolve exchanged.
ResolveArgsSwapped(conditional, assumption) == <<assumption, conditional>>

\* self.resolve(&conditional, assumption): (conditional, assumption) as passed.
ResolveArgs(conditional, assumption) == <<conditional, assumption>>

\* Mutant of FoldResult: an empty fold yields a default receipt (unwrap_or_default).
FoldResultDefault(acc) ==
    IF acc = <<>> THEN Ok(Succinct(ReceiptClaim(0, 0, <<>>))) ELSE Ok(acc[1])

\* .ok_or(anyhow!("malformed composite receipt has no continuation segment receipts"))
FoldResult(acc) == IF acc = <<>> THEN Err(MalformedMsg) ELSE Ok(acc[1])

CompressFrame ==
    UNCHANGED <<Service, io, call, hashfn, session, segment, segments, composite_receipt, transcript>>

\* try_fold, first segment receipt: None => self.lift(right)?
CompressLiftFirst ==
    /\ pc = "compress" /\ stack # <<>>
    /\ Top.phase = "continuation" /\ ~ContinuationDone(Top)
    /\ Top.acc = <<>>
    /\ \E lo \in Outcomes :
          /\ faults + FaultCost(lo) <= MaxFaults
          /\ LET right == Top.receipt.segments[Top.i]
                 lifted == External(lo, lift(right), "lift")
             IN /\ log' = Append(log, Event("lift", Len(stack), right, <<>>, lifted))
                /\ faults' = faults + FaultCost(lo)
                /\ IF IsErr(lifted)
                   THEN CompressFail(lifted)
                   ELSE /\ stack' = SetTop([Top EXCEPT !.acc = <<lifted>>, !.i = @ + 1])
                        /\ UNCHANGED <<pc, result, inner_receipt>>
    /\ CompressFrame

\* try_fold, later segment receipts: Some(left) => self.join(&left, &self.lift(right)?)?
CompressLiftJoin ==
    /\ pc = "compress" /\ stack # <<>>
    /\ Top.phase = "continuation" /\ ~ContinuationDone(Top)
    /\ Top.acc # <<>>
    /\ \E lo \in Outcomes, jo \in Outcomes :
          /\ faults + FaultCost(lo) + FaultCost(jo) <= MaxFaults
          /\ LET right == Top.receipt.segments[Top.i]
                 left == Top.acc[1]
                 lifted == External(lo, lift(right), "lift")
                 args == FoldArgs(left, lifted)
                 joined == External(jo, join(args[1], args[2]), "join")
             IN IF IsErr(lifted)
                THEN /\ jo = "ok"
                     /\ log' = Append(log, Event("lift", Len(stack), right, <<>>, lifted))
                     /\ faults' = faults + FaultCost(lo)
                     /\ CompressFail(lifted)
                ELSE /\ log' = log \o <<Event("lift", Len(stack), right, <<>>, lifted),
                                        Event("join", Len(stack), args[1], args[2], joined)>>
                     /\ faults' = faults + FaultCost(lo) + FaultCost(jo)
                     /\ IF IsErr(joined)
                        THEN CompressFail(joined)
                        ELSE /\ stack' = SetTop([Top EXCEPT !.acc = <<joined>>, !.i = @ + 1])
                             /\ UNCHANGED <<pc, result, inner_receipt>>
    /\ CompressFrame

\* End of the continuation fold: .ok_or(anyhow!("malformed ..."))?
CompressFoldEnd ==
    /\ pc = "compress" /\ stack # <<>>
    /\ Top.phase = "continuation" /\ ContinuationDone(Top)
    /\ LET continuation_receipt == FoldResult(Top.acc)
       IN IF IsErr(continuation_receipt)
          THEN CompressFail(continuation_receipt)
          ELSE /\ stack' = SetTop([Top EXCEPT !.phase = "assumptions",
                                              !.acc = <<continuation_receipt.value>>])
               /\ UNCHANGED <<pc, result, inner_receipt>>
    /\ UNCHANGED <<log, faults>>
    /\ CompressFrame

\* InnerReceipt::Succinct(assumption) => self.resolve(&conditional, assumption)
CompressResolveSuccinct ==
    /\ pc = "compress" /\ stack # <<>>
    /\ Top.phase = "assumptions" /\ ~AssumptionsDone(Top)
    /\ AssumptionAt(Top).kind = "Succinct"
    /\ \E ro \in Outcomes :
          /\ faults + FaultCost(ro) <= MaxFaults
          /\ LET conditional == Top.acc[1]
                 assumption == AssumptionAt(Top)
                 args == ResolveArgs(conditional, assumption)
                 resolved == External(ro, resolve(args[1], args[2]), "resolve")
             IN /\ log' = Append(log, Event("resolve", Len(stack), args[1], args[2], resolved))
                /\ faults' = faults + FaultCost(ro)
                /\ IF IsErr(resolved)
                   THEN CompressFail(resolved)
                   ELSE /\ stack' = SetTop([Top EXCEPT !.acc = <<resolved>>, !.j = @ + 1])
                        /\ UNCHANGED <<pc, result, inner_receipt>>
    /\ CompressFrame

\* InnerReceipt::Composite(assumption) => ... self.compress(assumption)? : the call
CompressRecurse ==
    /\ pc = "compress" /\ stack # <<>>
    /\ Top.phase = "assumptions" /\ ~AssumptionsDone(Top)
    /\ AssumptionAt(Top).kind = "Composite"
    /\ stack' = Append(stack, Frame(AssumptionAt(Top)))
    /\ log' = Append(log, Event("compress", Len(stack) + 1, AssumptionAt(Top), <<>>, NoResult))
    /\ UNCHANGED <<pc, result, inner_receipt, faults>>
    /\ CompressFrame

\* Mutant of UnsupportedMsg: the two messages exchanged.
UnsupportedMsgSwapped(kind) == IF kind = "Fake" THEN Groth16Msg ELSE FakeMsg

\* InnerReceipt::Fake { .. } => bail!(..), InnerReceipt::Groth16(_) => bail!(..)
UnsupportedMsg(kind) == IF kind = "Fake" THEN FakeMsg ELSE Groth16Msg

CompressUnsupported ==
    /\ pc = "compress" /\ stack # <<>>
    /\ Top.phase = "assumptions" /\ ~AssumptionsDone(Top)
    /\ AssumptionAt(Top).kind \in {"Fake", "Groth16"}
    /\ CompressFail(Err(UnsupportedMsg(AssumptionAt(Top).kind)))
    /\ UNCHANGED <<log, faults>>
    /\ CompressFrame

\* The assumption fold is over: this activation returns its running receipt.
\* A nested activation returns into self.resolve(&conditional, &..) of the
\* activation that called it.
CompressReturn ==
    /\ pc = "compress" /\ stack # <<>>
    /\ Top.phase = "assumptions" /\ AssumptionsDone(Top)
    /\ IF Len(stack) = 1
       THEN /\ CompressDone(Top.acc[1])
            /\ UNCHANGED <<log, faults>>
       ELSE \E ro \in Outcomes :
               /\ faults + FaultCost(ro) <= MaxFaults
               /\ LET caller == stack[Len(stack) - 1]
                      conditional == caller.acc[1]
                      assumption == Top.acc[1]
                      args == ResolveArgs(conditional, assumption)
                      resolved == External(ro, resolve(args[1], args[2]), "resolve")
                  IN /\ log' = Append(log, Event("resolve", Len(stack) - 1, args[1], args[2], resolved))
                     /\ faults' = faults + FaultCost(ro)
                     /\ IF IsErr(resolved)
                        THEN CompressFail(resolved)
                        ELSE /\ stack' = [SubSeq(stack, 1, Len(stack) - 1)
                                            EXCEPT ![Len(stack) - 1] =
                                               [caller EXCEPT !.acc = <<resolved>>, !.j = @ + 1]]
                             /\ UNCHANGED <<pc, result, inner_receipt>>
    /\ CompressFrame

NextCompress ==
    \/ CompressLiftFirst
    \/ CompressLiftJoin
    \/ CompressFoldEnd
    \/ CompressResolveSuccinct
    \/ CompressRecurse
    \/ CompressUnsupported
    \/ CompressReturn

SpecCompress == InitCompress /\ [][NextCompress]_vars

\* compress is sequential code without waiting: a step that can be taken is taken.
SpecCompressFair == SpecCompress /\ WF_vars(NextCompress)

(***************************************************************************)
(* ProverImpl::prove_segment, as prove_session sees it.                    *)
(***************************************************************************)
\* Mutant of SegmentSteps: the accumulator group is committed before the data group.
SegmentStepsAccumEarly ==
    <<"prepare_globals", "loader.load", "executor.finalize", "adapter.execute",
      "commit_group:code", "adapter.accumulate", "commit_group:accum",
      "commit_group:data", "prover.finalize", "get_claim", "verify_integrity">>

SegmentSteps ==
    <<"prepare_globals", "loader.load", "executor.finalize", "adapter.execute",
      "commit_group:code", "commit_group:data", "adapter.accumulate",
      "commit_group:accum", "prover.finalize", "get_claim", "verify_integrity">>

\* The steps of prove_segment that end in `?`.
FallibleSteps == {i \in 1..Len(SegmentSteps) :
                    SegmentSteps[i] \in {"prepare_globals", "loader.load",
                                         "get_claim", "verify_integrity"}}

\* Mutant of VerifyCtx: the check runs under VerifierContext::default().
VerifyCtxDefault(c) == DefaultCtx

\* receipt.verify_integrity_with_context(ctx): the context the check runs under.
VerifyCtx(c) == c

\* Mutant of PackageReceipt: the receipt is tagged with index 0.
PackageReceiptFirstIndex(seg, hf) == SegmentReceipt(0, hf, seg.claim)

\* SegmentReceipt { seal, index: segment.index, hashfn: hashfn.clone(), claim: segment.get_claim()? }
PackageReceipt(seg, hf) == SegmentReceipt(seg.index, hf, seg.claim)

\* The error a failing step leaves prove_segment with through `?`:
\* segment.prepare_globals()? passes on the error of compute_root_hash.
StepError(step) ==
    IF step = "prepare_globals" THEN Err("compute_root_hash") ELSE Err(step)

\* failAt = 0: every step succeeds; otherwise the step that fails.
\* verified: the context the packaged receipt was checked under, when the
\* call got as far as the check.
prove_segment(c, seg, failAt) ==
    [transcript |-> SubSeq(SegmentSteps, 1,
                           IF failAt = 0 THEN Len(SegmentSteps) ELSE failAt),
     out |-> IF failAt = 0
             THEN PackageReceipt(seg, hashfn)
             ELSE StepError(SegmentSteps[failAt]),
     verified |-> IF failAt \in {0, Len(SegmentSteps)} THEN <<VerifyCtx(c)>> ELSE <<>>]

(***************************************************************************)
(* ProverImpl::prove_session.                                              *)
(***************************************************************************)
\* Mutant of SessionFail: the error is dropped and the call goes on.
SessionFailSwallowed(e) ==
    /\ pc' = pc
    /\ result' = result

\* `?` and bail!: prove_session returns the error.
SessionFail(e) ==
    /\ pc' = "done"
    /\ result' = e

\* segment_ref.resolve()?: the segment, an error, or (a fault) a segment
\* other than the one the session recorded.
ResolveSegment(o, ref) ==
    CASE o = "ok" -> ref
      [] o = "err" -> Err("segment_ref.resolve")
      [] OTHER -> [ref EXCEPT !.claim.post = @ + 50]

SegResolve ==
    /\ pc = "resolve"
    /\ Len(segments) < Len(session.segments)
    /\ \E o \in Outcomes :
          /\ faults + FaultCost(o) <= MaxFaults
          /\ LET seg == ResolveSegment(o, session.segments[Len(segments) + 1])
             IN /\ log' = Append(log, Event("segment_ref.resolve", 0, Len(segments), <<>>, seg))
                /\ faults' = faults + FaultCost(o)
                /\ IF IsErr(seg)
                   THEN SessionFail(seg) /\ segment' = segment
                   ELSE /\ segment' = seg
                        /\ pc' = "pre_hooks"
                        /\ result' = result
    /\ UNCHANGED <<Service, io, call, hashfn, session, segments, composite_receipt, inner_receipt,
                   stack, transcript>>

HookEvents(op, seg) ==
    [h \in 1..session.hooks |-> Event(op, 0, h, seg.index, NoResult)]

\* Mutant of PreHook: the post-prove callback is called in its place.
PreHookWrong == "on_post_prove_segment"

PreHook == "on_pre_prove_segment"

PostHook == "on_post_prove_segment"

SegPreHooks ==
    /\ pc = "pre_hooks"
    /\ log' = log \o HookEvents(PreHook, segment)
    /\ pc' = "prove"
    /\ UNCHANGED <<Service, io, call, hashfn, session, segment, segments, composite_receipt,
                   inner_receipt, stack, transcript, faults, result>>

SegProve ==
    /\ pc = "prove"
    /\ \E failAt \in {0} \cup FallibleSteps :
          LET r == prove_segment(ctx, segment, failAt)
          IN /\ transcript' = r.transcript
             /\ log' = Append(log, Event("prove_segment", 0, segment.index, r.verified, r.out))
             /\ IF IsErr(r.out)
                THEN SessionFail(r.out) /\ segments' = segments
                ELSE /\ segments' = Append(segments, r.out)
                     /\ pc' = "post_hooks"
                     /\ result' = result
    /\ UNCHANGED <<Service, io, call, hashfn, session, segment, composite_receipt, inner_receipt,
                   stack, faults>>

SegPostHooks ==
    /\ pc = "post_hooks"
    /\ log' = log \o HookEvents(PostHook, segment)
    /\ pc' = "resolve"
    /\ UNCHANGED <<Service, io, call, hashfn, session, segment, segments, composite_receipt,
                   inner_receipt, stack, transcript, faults, result>>

\* Mutant of UnwrapAssumptions: the inner receipts are collected last first.
UnwrapAssumptionsReversed(as) ==
    IF \E j \in 1..Len(as) : as[j].kind = "Unresolved"
    THEN Err("as_receipt: no receipt for an unresolved assumption")
    ELSE Ok([j \in 1..Len(as) |-> as[Len(as) + 1 - j].inner])

\* session.assumptions.iter().map(|a| Ok(a.as_receipt()?.inner.clone())).collect()?
UnwrapAssumptions(as) ==
    IF \E j \in 1..Len(as) : as[j].kind = "Unresolved"
    THEN Err("as_receipt: no receipt for an unresolved assumption")
    ELSE Ok([j \in 1..Len(as) |-> as[j].inner])

Assemble ==
    /\ pc = "resolve"
    /\ Len(segments) = Len(session.segments)
    /\ LET as == UnwrapAssumptions(session.assumptions)
       IN IF IsErr(as)
          THEN SessionFail(as) /\ composite_receipt' = composite_receipt
          ELSE /\ composite_receipt' =
                     <<Composite(segments, as.value, JournalDigest(session.journal))>>
               /\ pc' = "verify_composite"
               /\ result' = result
    /\ UNCHANGED <<Service, io, call, hashfn, session, segment, segments, inner_receipt, stack, log,
                   transcript, faults>>

\* composite_receipt.verify_integrity_with_context(ctx)?
VerifyComposite ==
    /\ pc = "verify_composite"
    /\ \E o \in {"ok", "err"} :
          LET v == VerifyIntegrity(o, composite_receipt[1])
          IN /\ log' = Append(log, Event("verify_integrity", 0, composite_receipt[1], VerifyCtx(ctx), v))
             /\ IF IsErr(v)
                THEN SessionFail(v)
                ELSE pc' = "check_composite" /\ result' = result
    /\ UNCHANGED <<Service, io, call, hashfn, session, segment, segments, composite_receipt,
                   inner_receipt, stack, transcript, faults>>

EmptyComposite(r) == r.kind = "Composite" /\ r.segments = <<>>

\* The claim get_claim gives for a receipt.  A composite receipt without
\* segment receipts has no first and last segment to take it from: when the
\* call succeeds all the same, it gives the session's claim or another one.
EmptyClaims == {"session", "other"}

ClaimOf(receipt, sess, e) ==
    IF EmptyComposite(receipt)
    THEN IF e = "session" THEN sess.claim ELSE BogusClaim
    ELSE InnerClaim(receipt)

\* receipt.get_claim()? or session.get_claim()?: the call with what it returned.
GetClaim(o, who, receipt, sess, e) ==
    IF who = "receipt"
    THEN Event("get_claim", 0, receipt, <<>>,
               IF o = "err" THEN Err("get_claim: receipt") ELSE Ok(ClaimOf(receipt, sess, e)))
    ELSE Event("get_claim", 0, sess, <<>>,
               IF o = "err" THEN Err("get_claim: session") ELSE Ok(sess.claim))

\* The two get_claim()? of a comparison: the receipt's, then the session's.
\* Each returns the claim or fails; the second is not called when the first failed.
GetClaims(ro, so, receipt, sess, e) ==
    IF ro = "err"
    THEN <<GetClaim(ro, "receipt", receipt, sess, e)>>
    ELSE <<GetClaim(ro, "receipt", receipt, sess, e),
           GetClaim(so, "session", receipt, sess, e)>>

\* The get_claim()? calls of the branch taken when the digests differ, in
\* call order: the two inside tracing::debug! when the DEBUG level is
\* enabled (receipt, session), then the two inside bail! (session, receipt).
MismatchCalls(debug) ==
    (IF debug THEN <<"receipt", "session">> ELSE <<>>) \o <<"session", "receipt">>

\* failAt = 0: each of them succeeds; otherwise the one that fails, which is
\* the last one made.
MismatchClaims(debug, failAt, receipt, sess, e) ==
    [k \in 1..(IF failAt = 0 THEN Len(MismatchCalls(debug)) ELSE failAt) |->
        GetClaim(IF k = failAt THEN "err" ELSE "ok", MismatchCalls(debug)[k],
                 receipt, sess, e)]

\* What the branch ends with: the error of a failing get_claim()?, else the
\* bail! with the session's digest first and the receipt's second.
Mismatch(msg, claims) ==
    LET n == Len(claims)
    IN IF IsErr(claims[n].out)
       THEN claims[n].out
       ELSE MismatchErr(msg, Digest(claims[n - 1].out.value), Digest(claims[n].out.value))

\* Mutant of CompositeCheck: the comparison is left out.
CompositeCheckSkipped(receipt, sess, debug, failAt, e) == Ok(receipt)

\* if composite_receipt.get_claim()?.digest() != session.get_claim()?.digest()
\*     { tracing::debug!(..); bail!(.., session.get_claim()?.., composite_receipt.get_claim()?..) }
CompositeCheck(receipt, sess, debug, failAt, e) ==
    IF Digest(ClaimOf(receipt, sess, e)) # Digest(sess.claim)
    THEN Mismatch(CompositeMismatchMsg, MismatchClaims(debug, failAt, receipt, sess, e))
    ELSE Ok(receipt)

\* The get_claim calls a comparison makes after its first two succeeded.
BranchClaims(differ, debug, failAt, receipt, sess, e) ==
    IF differ THEN MismatchClaims(debug, failAt, receipt, sess, e) ELSE <<>>

CheckComposite ==
    /\ pc = "check_composite"
    /\ \E ro \in {"ok", "err"}, so \in {"ok", "err"}, debug \in BOOLEAN, failAt \in 0..4,
          e \in EmptyClaims :
          LET claims == GetClaims(ro, so, composite_receipt[1], session, e)
              last == claims[Len(claims)].out
              differ == /\ ~IsErr(last)
                        /\ Digest(ClaimOf(composite_receipt[1], session, e))
                              # Digest(session.claim)
              c == IF IsErr(last) THEN last
                   ELSE CompositeCheck(composite_receipt[1], session, debug, failAt, e)
          IN /\ failAt <= Len(MismatchCalls(debug))
             /\ ~differ => (~debug /\ failAt = 0)
             /\ ~EmptyComposite(composite_receipt[1]) => e = "session"
             /\ log' = log \o claims
                           \o BranchClaims(differ, debug, failAt, composite_receipt[1],
                                           session, e)
             /\ IF IsErr(c)
                THEN SessionFail(c)
                ELSE pc' = "select" /\ result' = result
    /\ UNCHANGED <<Service, io, call, hashfn, session, segment, segments, composite_receipt,
                   inner_receipt, stack, transcript, faults>>

\* Mutant of UsesCompress: every suite but "sha-256" is compressed.
UsesCompressUnlessSha(name) == name # "sha-256"

\* match self.hal_pair.hal.get_hash_suite().name.as_str() { "poseidon" => compress, _ => keep }
UsesCompress(name) == name = "poseidon"

SelectInner ==
    /\ pc = "select"
    /\ IF UsesCompress(hashfn)
       THEN /\ stack' = <<Frame(composite_receipt[1])>>
            /\ log' = Append(log, Event("compress", 1, composite_receipt[1], <<>>, NoResult))
            /\ pc' = "compress"
            /\ inner_receipt' = inner_receipt
       ELSE /\ inner_receipt' = <<composite_receipt[1]>>
            /\ pc' = "wrap"
            /\ UNCHANGED <<stack, log>>
    /\ UNCHANGED <<Service, io, call, hashfn, session, segment, segments, composite_receipt,
                   transcript, faults, result>>

\* Receipt::new(inner_receipt, journal bytes); receipt.verify_integrity_with_context(ctx)?
NewReceipt == Receipt(inner_receipt[1], JournalBytes(session.journal))

VerifyReceipt ==
    /\ pc = "wrap"
    /\ \E o \in {"ok", "err"} :
          LET v == VerifyIntegrity(o, inner_receipt[1])
          IN /\ log' = Append(log, Event("verify_integrity", 0, NewReceipt, VerifyCtx(ctx), v))
             /\ IF IsErr(v)
                THEN SessionFail(v)
                ELSE pc' = "check_receipt" /\ result' = result
    /\ UNCHANGED <<Service, io, call, hashfn, session, segment, segments, composite_receipt,
                   inner_receipt, stack, transcript, faults>>

\* Mutant of ReceiptCheck: the comparison is left out.
ReceiptCheckSkipped(receipt, sess, debug, failAt, e) == Ok(receipt)

\* if receipt.get_claim()?.digest() != session.get_claim()?.digest()
\*     { tracing::debug!(..); bail!(.., session.get_claim()?.., receipt.get_claim()?..) }
\* Ok(receipt)
ReceiptCheck(receipt, sess, debug, failAt, e) ==
    IF Digest(ClaimOf(receipt.inner, sess, e)) # Digest(sess.claim)
    THEN Mismatch(ReceiptMismatchMsg, MismatchClaims(debug, failAt, receipt.inner, sess, e))
    ELSE Ok(receipt)

CheckReceipt ==
    /\ pc = "check_receipt"
    /\ \E ro \in {"ok", "err"}, so \in {"ok", "err"}, debug \in BOOLEAN, failAt \in 0..4,
          e \in EmptyClaims :
          LET claims == GetClaims(ro, so, inner_receipt[1], session, e)
              last == claims[Len(claims)].out
              differ == /\ ~IsErr(last)
                        /\ Digest(ClaimOf(inner_receipt[1], session, e)) # Digest(session.claim)
          IN /\ failAt <= Len(MismatchCalls(debug))
             /\ ~differ => (~debug /\ failAt = 0)
             /\ ~EmptyComposite(inner_receipt[1]) => e = "session"
             /\ log' = log \o claims
                           \o BranchClaims(differ, debug, failAt, inner_receipt[1], session, e)
             /\ pc' = "done"
             /\ result' = IF IsErr(last) THEN last
                          ELSE ReceiptCheck(NewReceipt, session, debug, failAt, e)
    /\ UNCHANGED <<Service, io, call, hashfn, session, segment, segments, composite_receipt,
                   inner_receipt, stack, transcript, faults>>

Next ==
    \/ SegResolve
    \/ SegPreHooks
    \/ SegProve
    \/ SegPostHooks
    \/ Assemble
    \/ VerifyComposite
    \/ CheckComposite
    \/ SelectInner
    \/ NextCompress
    \/ VerifyReceipt
    \/ CheckReceipt

Spec == InitSession /\ [][Next]_vars

(***************************************************************************)
(* get_prover_server: selection of the proving service.                    *)
(***************************************************************************)
DevModeWarning == "WARNING: proving in dev mode. This will not generate valid, secure proofs."

DevModeProver == [kind |-> "DevModeProver"]

\* ProverImpl::new(name, HalPair { hal, circuit_hal }), the hal built for suite hf.
ProverImplOf(name, hf) == [kind |-> "ProverImpl", name |-> name, hashfn |-> hf]

\* Mutant of UnsupportedHashfn: an unknown name falls back to the sha-256 suite.
UnsupportedHashfnFallback(backend, name) == Ok(ProverImplOf(backend, "sha-256"))

\* _ => bail!("Unsupported hashfn: {}", opts.hashfn)
UnsupportedHashfn(backend, name) ==
    [kind |-> "Err", msg |-> "Unsupported hashfn: {}", hashfn |-> name,
     session |-> <<>>, receipt |-> <<>>]

\* cuda::get_prover_server, metal::get_prover_server and cpu::get_prover_server:
\* match opts.hashfn.as_str() { "sha-256" => .., "poseidon" => .., _ => bail!(..) }
backend_get_prover_server(backend, name) ==
    CASE name = "sha-256" -> Ok(ProverImplOf(backend, "sha-256"))
      [] name = "poseidon" -> Ok(ProverImplOf(backend, "poseidon"))
      [] OTHER -> UnsupportedHashfn(backend, name)

\* cfg_if! { if cuda { cuda:: } else if metal { metal:: } else { cpu:: } }
cfg_if(feats) ==
    IF "cuda" \in feats THEN "cuda"
    ELSE IF "metal" \in feats THEN "metal"
    ELSE "cpu"

\* Mutant of DevModeOutput: the stub is returned without the warning.
DevModeSilent == [out |-> Ok(DevModeProver), stderr |-> <<>>]

\* eprintln!("WARNING: ..."); return Ok(Rc::new(DevModeProver));
DevModeOutput == [out |-> Ok(DevModeProver), stderr |-> <<DevModeWarning>>]

get_prover_server(name, dev, feats) ==
    IF dev
    THEN DevModeOutput
    ELSE [out |-> backend_get_prover_server(cfg_if(feats), name), stderr |-> <<>>]

(***************************************************************************)
(* Segment::prepare_globals.                                               *)
(***************************************************************************)
DIGEST_WORDS == 8
WORD_SIZE == 4
OUTPUT_SIZE == 138

\* The Baby Bear modulus; Elem::from(u32) reduces into 0..P-1.
BabyBearP == 15 * (2 ^ 27) + 1

ElemFrom(x) == x % BabyBearP

\* Elem::ZERO and Elem::INVALID (the word 0xffffffff, which is no field element).
ZERO == 0
INVALID == -1

\* A u32 as its two 16-bit halves.
U32(hi, lo) == [hi |-> hi, lo |-> lo]

\* Mutant of to_le_bytes: most significant byte first.
to_be_bytes(w) == <<w.hi \div 256, w.hi % 256, w.lo \div 256, w.lo % 256>>

\* u32::to_le_bytes
to_le_bytes(w) == <<w.lo % 256, w.lo \div 256, w.hi % 256, w.hi \div 256>>

\* self.pre_image.compute_root_hash()?: the root digest of the image, or an error.
compute_root_hash(o, image) ==
    IF o = "ok" THEN Ok(image.root) ELSE Err("compute_root_hash")

prepare_globals(seg, o) ==
    LET io0 == [k \in 1..OUTPUT_SIZE |-> INVALID]
        \* initialize Input
        io1 == [k \in 1..OUTPUT_SIZE |->
                   IF k - 1 < DIGEST_WORDS * WORD_SIZE THEN ZERO ELSE io0[k]]
        offset1 == DIGEST_WORDS * WORD_SIZE
        \* initialize PC
        pc_bytes == to_le_bytes(seg.pre_image.pc)
        io2 == [k \in 1..OUTPUT_SIZE |->
                   IF k - 1 - offset1 \in 0..(WORD_SIZE - 1)
                   THEN ElemFrom(pc_bytes[k - offset1])
                   ELSE io1[k]]
        offset2 == offset1 + WORD_SIZE
        \* initialize ImageID
        merkle_root == compute_root_hash(o, seg.pre_image)
        io3 == [k \in 1..OUTPUT_SIZE |->
                   IF k - 1 - offset2 \in 0..(DIGEST_WORDS * WORD_SIZE - 1)
                   THEN LET i == (k - 1 - offset2) \div WORD_SIZE
                            j == (k - 1 - offset2) % WORD_SIZE
                        IN ElemFrom(to_le_bytes(merkle_root.value[i + 1])[j + 1])
                   ELSE io2[k]]
    IN IF IsErr(merkle_root) THEN merkle_root ELSE Ok(io3)

(***************************************************************************)
(* get_prover_server(opts) followed by prover.prove_segment(ctx, segment), *)
(* step by step.                                                           *)
(***************************************************************************)
HashfnNames == HashSuites \cup {"SHA-256"}

FeatureSets == SUBSET {"cuda", "metal"}

ProgramCounters == {U32(0, 0), U32(32, 2048), U32(258, 772), U32(65535, 65532)}

RootSeeds == {1, 5}

RootWords(seed) ==
    [i \in 1..DIGEST_WORDS |->
        U32((seed * i * 7919) % 65536, (seed * i * 104729 + 13) % 65536)]

MemoryImages == {[pc |-> p, root |-> RootWords(seed)] : p \in ProgramCounters, seed \in RootSeeds}

\* A Segment with the memory image it starts from.
SegmentOf(index, claim, image) ==
    [kind |-> "Segment", index |-> index, claim |-> claim, pre_image |-> image]

SegmentInputs ==
    {SegmentOf(i, SegmentClaim(0, i, MaxSegs, <<>>), img) :
        i \in 0..(MaxSegs - 1), img \in MemoryImages}

InitSegment ==
    /\ call = "prove_segment"
    /\ hashfn = ""
    /\ session = NoSession
    /\ ctx \in Contexts
    /\ opts \in HashfnNames
    /\ is_dev_mode \in BOOLEAN
    /\ features \in FeatureSets
    /\ server = NoResult
    /\ stderr = <<>>
    /\ io = <<>>
    /\ pc = "get_prover_server"
    /\ stack = <<>>
    /\ log = <<>>
    /\ segments = <<>>
    /\ composite_receipt = <<>>
    /\ inner_receipt = <<>>
    /\ transcript = <<>>
    /\ faults = 0
    /\ result = NoResult
    /\ segment \in SegmentInputs

SegmentFrame ==
    UNCHANGED <<call, session, segment, segments, composite_receipt, inner_receipt,
                stack, faults, ctx, opts, is_dev_mode, features>>

\* let prover = get_prover_server(&opts)?; the prover goes on to prove the
\* segment (Segment::prove) or the session (Session::prove).
GetProverServer ==
    /\ pc = "get_prover_server"
    /\ LET r == get_prover_server(opts, is_dev_mode, features)
       IN /\ server' = r.out
          /\ stderr' = stderr \o r.stderr
          /\ IF IsErr(r.out)
             THEN pc' = "done" /\ result' = r.out /\ hashfn' = hashfn
             ELSE IF r.out.value.kind = "ProverImpl"
             THEN /\ pc' = IF call = "Session::prove" THEN "resolve" ELSE "prove_segment"
                  /\ result' = result
                  /\ hashfn' = r.out.value.hashfn
             ELSE /\ pc' = IF call = "Session::prove"
                          THEN "dev_prove_session" ELSE "dev_prove_segment"
                  /\ result' = result
                  /\ hashfn' = hashfn
    /\ UNCHANGED <<io, log, transcript>>
    /\ SegmentFrame

\* The step prove_segment is at.
NextStep == Len(transcript) + 1

\* let io = segment.prepare_globals()?;
PrepareGlobals ==
    /\ pc = "prove_segment"
    /\ NextStep = 1
    /\ \E o \in {"ok", "err"} :
          LET g == prepare_globals(segment, o)
          IN /\ transcript' = Append(transcript, SegmentSteps[NextStep])
             /\ IF IsErr(g)
                THEN /\ pc' = "done"
                     /\ result' = g
                     /\ io' = io
                ELSE /\ io' = g.value
                     /\ UNCHANGED <<pc, result>>
    /\ UNCHANGED <<hashfn, server, stderr, log>>
    /\ SegmentFrame

\* loader.load .. prover.finalize, then segment.get_claim()? while packaging.
ProveStep ==
    /\ pc = "prove_segment"
    /\ NextStep \in 2..(Len(SegmentSteps) - 1)
    /\ \E o \in {"ok", "err"} :
          /\ o = "err" => NextStep \in FallibleSteps
          /\ transcript' = Append(transcript, SegmentSteps[NextStep])
          /\ IF o = "err"
             THEN pc' = "done" /\ result' = prove_segment(ctx, segment, NextStep).out
             ELSE UNCHANGED <<pc, result>>
    /\ UNCHANGED <<hashfn, server, stderr, log, io>>
    /\ SegmentFrame

\* receipt.verify_integrity_with_context(ctx)?; Ok(receipt)
VerifySegment ==
    /\ pc = "prove_segment"
    /\ NextStep = Len(SegmentSteps)
    /\ \E o \in {"ok", "err"} :
          LET r == prove_segment(ctx, segment, IF o = "ok" THEN 0 ELSE NextStep)
              receipt == prove_segment(ctx, segment, 0).out
          IN /\ transcript' = r.transcript
             /\ log' = Append(log, Event("verify_integrity", 0, receipt, r.verified[1],
                                         IF o = "ok" THEN Ok(receipt) ELSE r.out))
             /\ pc' = "done"
             /\ result' = IF o = "ok" THEN Ok(r.out) ELSE r.out
    /\ UNCHANGED <<hashfn, server, stderr, io>>
    /\ SegmentFrame

\* unimplemented!(): the call does not return.
Panic(msg) == [kind |-> "Panic", msg |-> msg, session |-> <<>>, receipt |-> <<>>]

\* prover.prove_segment(ctx, self) on the dev-mode stub, which proves no
\* segment: the call is made and Segment::prove ends with what it gives,
\* an error or a panic; none of the proof steps runs.
DevProveSegment ==
    /\ pc = "dev_prove_segment"
    /\ server = Ok(DevModeProver)
    /\ \E o \in {"err", "panic"} :
          LET r == IF o = "err"
                   THEN Err("DevModeProver::prove_segment")
                   ELSE Panic("DevModeProver::prove_segment")
          IN /\ log' = Append(log, Event("DevModeProver::prove_segment", 0, segment.index,
                                         VerifyCtx(ctx), r))
             /\ result' = r
             /\ pc' = "done"
    /\ UNCHANGED <<hashfn, server, stderr, io, transcript>>
    /\ SegmentFrame

NextSegment ==
    \/ GetProverServer
    \/ PrepareGlobals
    \/ ProveStep
    \/ VerifySegment
    \/ DevProveSegment

SpecSegment == InitSegment /\ [][NextSegment]_vars

(***************************************************************************)
(* The public entry points that end in prove_session: Session::prove and  *)
(* the provided methods ProverServer::prove and prove_with_ctx.            *)
(***************************************************************************)
\* ProverOpts::default().hashfn
ProverOptsDefault == "poseidon"

EntryPoints == {"Session::prove", "ProverServer::prove", "ProverServer::prove_with_ctx"}

\* Session::prove(&self): the session is the receiver, the options and the
\* context are the defaults, the prover is yet to be selected.
InitSessionProve ==
    /\ call = "Session::prove"
    /\ hashfn = ""
    /\ session \in Sessions
    /\ ctx = DefaultCtx
    /\ opts = ProverOptsDefault
    /\ is_dev_mode \in BOOLEAN
    /\ features \in FeatureSets
    /\ pc = "get_prover_server"

\* prover.prove(env, elf) and prover.prove_with_ctx(env, ctx, elf) on a
\* ProverImpl built by ProverImpl::new: the session is yet to be executed.
InitProverProve ==
    /\ call \in EntryPoints \ {"Session::prove"}
    /\ hashfn \in HashSuites
    /\ session = NoSession
    /\ IF call = "ProverServer::prove"
       THEN ctx = NoCtx /\ pc = "prove_with_ctx"
       ELSE ctx \in Contexts /\ pc = "from_elf"
    /\ opts = ""
    /\ is_dev_mode = FALSE
    /\ features = {}

InitProve ==
    /\ InitSessionProve \/ InitProverProve
    /\ server = NoResult
    /\ stderr = <<>>
    /\ io = <<>>
    /\ stack = <<>>
    /\ log = <<>>
    /\ Locals

ProveFrame ==
    UNCHANGED <<call, hashfn, segment, segments, composite_receipt, inner_receipt, stack,
                log, transcript, faults, opts, is_dev_mode, features, server, stderr, io>>

\* fn prove(&self, env, elf) { self.prove_with_ctx(env, &VerifierContext::default(), elf) }
ProveWithDefaultCtx ==
    /\ call = "ProverServer::prove"
    /\ pc = "prove_with_ctx"
    /\ ctx' = DefaultCtx
    /\ pc' = "from_elf"
    /\ UNCHANGED <<session, result>>
    /\ ProveFrame

\* let mut exec = ExecutorImpl::from_elf(env, elf)?;
FromElf ==
    /\ pc = "from_elf"
    /\ \E o \in {"ok", "err"} :
          IF o = "err"
          THEN pc' = "done" /\ result' = Err("ExecutorImpl::from_elf")
          ELSE pc' = "run" /\ result' = result
    /\ UNCHANGED <<session, ctx>>
    /\ ProveFrame

\* let session = exec.run()?; self.prove_session(ctx, &session)
ExecRun ==
    /\ pc = "run"
    /\ \E o \in {"ok", "err"}, s \in Sessions :
          IF o = "err"
          THEN pc' = "done" /\ result' = Err("exec.run") /\ session' = session
          ELSE pc' = "resolve" /\ result' = result /\ session' = s
    /\ UNCHANGED ctx
    /\ ProveFrame

\* prover.prove_session(&VerifierContext::default(), self) on the dev-mode
\* stub: a Receipt whose inner receipt is the Fake placeholder of the
\* session's claim, or an error.
DevProveSession ==
    /\ pc = "dev_prove_session"
    /\ server = Ok(DevModeProver)
    /\ \E o \in {"ok", "err"} :
          LET r == IF o = "err"
                   THEN Err("DevModeProver::prove_session")
                   ELSE Ok(Receipt(Fake(session.claim), JournalBytes(session.journal)))
          IN /\ log' = Append(log, Event("DevModeProver::prove_session", 0, session,
                                         VerifyCtx(ctx), r))
             /\ result' = r
             /\ pc' = "done"
    /\ UNCHANGED <<Service, io, call, hashfn, session, segment, segments, composite_receipt,
                   inner_receipt, stack, transcript, faults>>

NextProve ==
    \/ GetProverServer
    \/ ProveWithDefaultCtx
    \/ FromElf
    \/ ExecRun
    \/ DevProveSession
    \/ Next

SpecProve == InitProve /\ [][NextProve]_vars

(***************************************************************************)
(* Reading the call log.                                                   *)
(***************************************************************************)
Calls == 1..Len(log)

Max(S) == CHOOSE x \in S : \A y \in S : y <= x

\* The compress call whose activation made call p.
Opener(p) ==
    Max({c \in 1..p : log[c].op = "compress" /\ log[c].level = log[p].level})

\* The calls that activation made itself, up to and including p.
Activation(p) ==
    {q \in (Opener(p) + 1)..p : log[q].level = log[p].level}

CountOp(S, op) == Cardinality({q \in S : log[q].op = op})

\* The composite receipt compress was entered with.
Input == log[1].a

CompressCalled == \E p \in Calls : log[p].op = "compress"

HasUnsupported(r) ==
    \E j \in 1..Len(r.assumptions) : r.assumptions[j].kind \in {"Fake", "Groth16"}

FirstUnsupported(r) ==
    CHOOSE j \in 1..Len(r.assumptions) :
        /\ r.assumptions[j].kind \in {"Fake", "Groth16"}
        /\ \A i \in 1..(j - 1) : r.assumptions[i].kind \notin {"Fake", "Groth16"}

\* A composite receipt with segment receipts and only succinct or, in turn,
\* compressible composite assumptions.
RECURSIVE Compressible(_)
Compressible(r) ==
    /\ r.segments # <<>>
    /\ \A j \in 1..Len(r.assumptions) :
          \/ r.assumptions[j].kind = "Succinct"
          \/ r.assumptions[j].kind = "Composite" /\ Compressible(r.assumptions[j])

Adjacent(r) ==
    \A k \in 1..(Len(r.segments) - 1) :
        r.segments[k].claim.post = r.segments[k + 1].claim.pre

NoCallFailed == \A p \in Calls : ~IsErr(log[p].out)

(***************************************************************************)
(* Claims about compress (checked under SpecCompress).                     *)
(***************************************************************************)

\* C2: compress of a composite receipt without segment receipts makes no
\* call to lift, join or resolve (the compress call stays the last call
\* logged) and returns the malformed-input error, never a succinct receipt,
\* whatever the assumptions list holds; this is so for the receipt compress
\* was entered with and for every nested composite it is applied to.
C2_EmptySegmentsMalformed ==
    \A c \in Calls :
        (log[c].op = "compress" /\ log[c].a.segments = <<>>) =>
            /\ c = Len(log)
            /\ result.kind # "Ok"
            /\ pc = "done" => result = Err(MalformedMsg)

C2_Witness ==
    /\ pc = "done"
    /\ Input.segments = <<>>
    /\ Len(Input.assumptions) = 2
    /\ Input.assumptions[1].kind = "Succinct"
    /\ result = Err(MalformedMsg)

\* C3 as stated: whenever the assumptions list holds a Fake or Groth16
\* entry, compress fails with the unsupported-assumption error of such an
\* entry's representation.
C3_Original ==
    (pc = "done" /\ HasUnsupported(Input)) =>
        /\ IsErr(result)
        /\ \E j \in 1..Len(Input.assumptions) :
              \/ Input.assumptions[j].kind = "Fake" /\ result.msg = FakeMsg
              \/ Input.assumptions[j].kind = "Groth16" /\ result.msg = Groth16Msg

\* C3 amended: with a Fake or Groth16 entry in the assumptions list compress
\* always fails; the error is the unsupported-assumption error of the first
\* such entry's representation when the receipt has segment receipts, every
\* assumption listed before that entry is succinct or a compressible
\* composite, and no lift, join or resolve call failed; otherwise it is the
\* error of the step that failed earlier.
C3_UnsupportedAssumptionFails ==
    (pc = "done" /\ HasUnsupported(Input)) =>
        LET f == FirstUnsupported(Input)
            earlier == [Input EXCEPT !.assumptions = SubSeq(@, 1, f - 1)]
        IN /\ IsErr(result)
           /\ (Compressible(earlier) /\ NoCallFailed) =>
                 result = Err(IF Input.assumptions[f].kind = "Fake"
                              THEN "compressing composite receipts with fake receipt assumptions is not supported"
                              ELSE "compressing composite receipts with Groth16 receipt assumptions is not supported")
           /\ ~(Compressible(earlier) /\ NoCallFailed) =>
                 \/ result = Err(MalformedMsg)
                 \/ \E p \in Calls : IsErr(log[p].out) /\ result = log[p].out
                 \/ result.msg \in {FakeMsg, Groth16Msg}

C3_Witness ==
    /\ pc = "done"
    /\ Len(Input.assumptions) = 2
    /\ Input.assumptions[1].kind = "Composite"
    /\ Input.assumptions[2].kind = "Groth16"
    /\ CountOp(Calls, "resolve") = 1
    /\ result = Err(Groth16Msg)

\* C5: in every activation of compress the n-th lift is of the n-th segment
\* receipt of the list; the first lift follows the compress call directly
\* and no join is issued for it; every later lift is followed at once by a
\* join whose first argument is what the activation's previous lift (n = 2)
\* or join (n > 2) returned, and whose second argument is what the new lift
\* returned.
C5_ContinuationFoldOrder ==
    \A p \in Calls :
        LET R == log[Opener(p)].a
            n == CountOp(Activation(p), "lift")
        IN /\ log[p].op = "lift" =>
                /\ n <= Len(R.segments)
                /\ log[p].a = R.segments[n]
                /\ CountOp(Activation(p), "resolve") = 0
                /\ IF n = 1 THEN p = Opener(p) + 1
                   ELSE /\ log[p - 1].level = log[p].level
                        /\ log[p - 1].op = (IF n = 2 THEN "lift" ELSE "join")
                        /\ ~IsErr(log[p].out) =>
                              p < Len(log) /\ log[p + 1].op = "join"
           /\ log[p].op = "join" =>
                /\ n >= 2
                /\ CountOp(Activation(p), "join") = n - 1
                /\ log[p - 1].op = "lift" /\ log[p - 1].level = log[p].level
                /\ log[p].b = log[p - 1].out
                /\ log[p - 2].op = (IF n = 2 THEN "lift" ELSE "join")
                /\ log[p - 2].level = log[p].level
                /\ log[p].a = log[p - 2].out

C5_Witness ==
    /\ pc = "done" /\ result.kind = "Ok"
    /\ Len(Input.segments) = 3
    /\ log[4].op = "join" /\ log[6].op = "join"
    /\ log[6].a = log[4].out /\ log[6].b = log[5].out

\* C6: in every activation of compress a resolve is issued only once all
\* segment receipts were lifted; the q-th resolve consumes the q-th listed
\* assumption, its conditional argument being what the activation's previous
\* call returned (the continuation fold's result for q = 1, the previous
\* resolve's otherwise); a Succinct assumption is passed as listed, a
\* Composite assumption is first compressed by a nested activation whose
\* result is passed.
C6_AssumptionFoldOrder ==
    \A p \in Calls :
        log[p].op = "resolve" =>
            LET R == log[Opener(p)].a
                act == Activation(p)
                q == CountOp(act, "resolve")
                prev == Max(act \ {p})
            IN /\ q <= Len(R.assumptions)
               /\ CountOp(act, "lift") = Len(R.segments)
               /\ CountOp(act, "join") = Len(R.segments) - 1
               /\ act # {p}
               /\ log[prev].op = (IF q > 1 THEN "resolve"
                                  ELSE IF Len(R.segments) = 1 THEN "lift" ELSE "join")
               /\ log[p].a = log[prev].out
               /\ R.assumptions[q].kind \in {"Succinct", "Composite"}
               /\ R.assumptions[q].kind = "Succinct" =>
                     prev = p - 1 /\ log[p].b = R.assumptions[q]
               /\ R.assumptions[q].kind = "Composite" =>
                     /\ log[p - 1].level = log[p].level + 1
                     /\ Opener(p - 1) = prev + 1
                     /\ log[prev + 1].a = R.assumptions[q]
                     /\ log[p].b = log[p - 1].out

C6_Witness ==
    /\ pc = "done" /\ result.kind = "Ok"
    /\ Len(Input.assumptions) = 2
    /\ Input.assumptions[1].kind = "Composite"
    /\ Input.assumptions[2].kind = "Succinct"
    /\ CountOp({p \in Calls : log[p].level = 1}, "resolve") = 2

\* C7: when lift, join and resolve keep their contracts (no call returned
\* an off-contract receipt), a successful compress of a composite receipt
\* with adjacent segments returns the succinct receipt of the composite
\* receipt's own claim: first segment's pre-state, last segment's post-state,
\* no assumption left.
C7_CompressKeepsClaim ==
    (pc = "done" /\ result.kind = "Ok" /\ faults = 0 /\ Adjacent(Input)) =>
        /\ result.value = Succinct(CompositeClaim(Input))
        /\ result.value.claim.assumptions = <<>>
        /\ result.value.claim.pre = Input.segments[1].claim.pre
        /\ result.value.claim.post = Input.segments[Len(Input.segments)].claim.post

C7_Witness ==
    /\ pc = "done" /\ result.kind = "Ok" /\ faults = 0
    /\ Len(Input.segments) = 3
    /\ Len(Input.assumptions) = 2
    /\ Input.assumptions[2].kind = "Composite"
    /\ result.value.claim = ReceiptClaim(0, 3, <<>>)

Unsupported(a) == a.kind \in {"Fake", "Groth16"}

\* Assumptions compress cannot fold: unsupported ones and composites that
\* are not compressible.
Defects(r) ==
    {j \in 1..Len(r.assumptions) :
        \/ Unsupported(r.assumptions[j])
        \/ r.assumptions[j].kind = "Composite" /\ ~Compressible(r.assumptions[j])}

Min(S) == CHOOSE x \in S : \A y \in S : x <= y

\* The message of the first obstacle met when r is compressed and no
\* lift, join or resolve fails.
RECURSIVE FirstDefect(_)
FirstDefect(r) ==
    IF r.segments = <<>>
    THEN "malformed composite receipt has no continuation segment receipts"
    ELSE LET a == r.assumptions[Min(Defects(r))]
         IN CASE a.kind = "Fake" ->
                   "compressing composite receipts with fake receipt assumptions is not supported"
              [] a.kind = "Groth16" ->
                   "compressing composite receipts with Groth16 receipt assumptions is not supported"
              [] OTHER -> FirstDefect(a)

\* The Composite assumptions of the input that are malformed or hold an
\* unsupported assumption, at any depth.
BrokenComposites ==
    {j \in 1..Len(Input.assumptions) :
        Input.assumptions[j].kind = "Composite" /\ ~Compressible(Input.assumptions[j])}

\* C19 as stated: when a Composite assumption is malformed or holds an
\* unsupported assumption at some depth, compress fails with the error that
\* composite's own compression gives.
C19_Original ==
    (pc = "done" /\ BrokenComposites # {}) =>
        /\ IsErr(result)
        /\ \E j \in BrokenComposites : result = Err(FirstDefect(Input.assumptions[j]))

\* C19 amended: when a Composite assumption of the input is malformed or
\* holds a Fake or Groth16 assumption at some depth, compress returns an
\* error and never a succinct receipt, and resolve is called neither for
\* the first such assumption nor for any assumption listed after it.  The
\* error is that composite's inner error when the input has segment
\* receipts, every assumption listed before it can be folded and no lift,
\* join or resolve call failed; otherwise it is the error of the step that
\* failed before.
C19_NestedDefectPropagates ==
    BrokenComposites # {} =>
        LET j == Min(BrokenComposites)
            top == {p \in Calls : log[p].level = 1}
        IN /\ result.kind # "Ok"
           /\ CountOp(top, "resolve") < j
           /\ pc = "done" =>
                 /\ IsErr(result)
                 /\ (Input.segments # <<>> /\ Min(Defects(Input)) = j /\ NoCallFailed) =>
                       /\ result = Err(FirstDefect(Input.assumptions[j]))
                       /\ CountOp(top, "resolve") = j - 1
                       /\ CountOp(top, "lift") = Len(Input.segments)
                 /\ ~(Input.segments # <<>> /\ Min(Defects(Input)) = j /\ NoCallFailed) =>
                       \/ result = Err(MalformedMsg) /\ Input.segments = <<>>
                       \/ \E p \in Calls : IsErr(log[p].out) /\ result = log[p].out
                       \/ /\ Min(Defects(Input)) < j
                          /\ result = Err(FirstDefect(Input))

C19_Witness ==
    /\ pc = "done"
    /\ Len(Input.segments) = 2
    /\ Len(Input.assumptions) = 1
    /\ Input.assumptions[1].kind = "Composite"
    /\ Input.assumptions[1].segments # <<>>
    /\ Len(Input.assumptions[1].assumptions) = 1
    /\ Input.assumptions[1].assumptions[1].kind = "Composite"
    /\ Input.assumptions[1].assumptions[1].segments = <<>>
    /\ result = Err(MalformedMsg)
    /\ CountOp(Calls, "resolve") = 0
    /\ CountOp(Calls, "compress") = 3

\* The calls of one kind that compressing r makes when nothing fails.
Own(r, op) ==
    CASE op = "lift" -> Len(r.segments)
      [] op = "join" -> IF r.segments = <<>> THEN 0 ELSE Len(r.segments) - 1
      [] op = "resolve" -> Len(r.assumptions)

RECURSIVE Expected(_, _)
RECURSIVE Nested(_, _, _)
Expected(r, op) == Own(r, op) + Nested(r, op, Len(r.assumptions))

Nested(r, op, j) ==
    IF j = 0 THEN 0
    ELSE Nested(r, op, j - 1)
         + (IF r.assumptions[j].kind = "Composite" THEN Expected(r.assumptions[j], op) ELSE 0)

\* C20: every run of compress ends; it never makes more lift, join or
\* resolve calls than the receipt has segment receipts, segment receipts
\* less one, and assumptions, counted over the receipt and the composites
\* nested in it; a successful run has made exactly N lift, N - 1 join and
\* M resolve calls in the activation for the receipt itself, and in every
\* nested activation the same for the composite it compresses, whose
\* result costs one resolve of the M in the enclosing activation.
C20_TerminatesWithCounts ==
    /\ <>(pc = "done")
    /\ [](\A op \in {"lift", "join", "resolve"} :
             /\ CountOp(Calls, op) <= Expected(Input, op)
             /\ (pc = "done" /\ result.kind = "Ok") =>
                   /\ CountOp(Calls, op) = Expected(Input, op)
                   /\ CountOp({p \in Calls : log[p].level = 1}, op) = Own(Input, op)
                   /\ \A c \in Calls :
                         log[c].op = "compress" =>
                             \E e \in c..Len(log) :
                                 /\ \A q \in c..e : log[q].level >= log[c].level
                                 /\ e < Len(log) => log[e + 1].level < log[c].level
                                 /\ CountOp({q \in c..e : log[q].level = log[c].level}, op)
                                       = Own(log[c].a, op))

C20_Witness ==
    /\ pc = "done" /\ result.kind = "Ok"
    /\ Len(Input.segments) = 3
    /\ Len(Input.assumptions) = 2
    /\ Input.assumptions[1].kind = "Composite"
    /\ Input.assumptions[2].kind = "Succinct"
    /\ CountOp(Calls, "lift") = 5
    /\ CountOp(Calls, "join") = 3
    /\ CountOp(Calls, "resolve") = 2

(***************************************************************************)
(* Claims about prove_session (checked under Spec).                        *)
(***************************************************************************)
SessionCalls(op) == {p \in Calls : log[p].op = op}

Returned == pc = "done" /\ result.kind = "Ok"

\* The verify_integrity calls made on the assembled composite receipt.
CompositeVerifies ==
    {p \in Calls : log[p].op = "verify_integrity" /\ log[p].a.kind = "Composite"}

\* C1: for a session with at least one segment, under every hash suite and
\* whatever the collaborators returned, prove_session ends in an error or in
\* a Receipt whose claim digest is the session's claim digest.
C1_ReceiptClaimMatchesSession ==
    (pc = "done" /\ Len(session.segments) >= 1) =>
        \/ IsErr(result)
        \/ /\ result.kind = "Ok"
           /\ result.value.kind = "Receipt"
           /\ Digest(InnerClaim(result.value.inner)) = Digest(session.claim)

C1_Witness ==
    /\ Returned
    /\ Len(session.segments) = 3
    /\ Len(session.assumptions) = 2
    /\ result.value.inner.kind = "Succinct"
    /\ Digest(result.value.inner.claim) = Digest(session.claim)

\* C4: a Receipt returned under "sha-256" is Composite and one returned
\* under "poseidon" is Succinct, both reachable from the same session; and
\* compress is called during prove_session only under "poseidon".
C4_HashSuiteSelectsRepresentation ==
    /\ Returned =>
          /\ hashfn = "sha-256" => result.value.inner.kind = "Composite"
          /\ hashfn = "poseidon" => result.value.inner.kind = "Succinct"
    /\ CompressCalled => hashfn = "poseidon"
    /\ (hashfn = "poseidon" /\ pc \in {"wrap", "check_receipt"}) => CompressCalled

C4_Witness ==
    /\ Returned
    /\ hashfn = "poseidon"
    /\ result.value.inner.kind = "Succinct"
    /\ CompressCalled
    /\ Len(session.segments) = 2

\* C8: the m-th prove_segment call is for segment index m - 1; directly
\* before it come the segment's pre-prove callbacks, one per hook, and,
\* when the proof succeeded, directly after it the segment's post-prove
\* callbacks, one per hook; callbacks occur nowhere else; a returned Receipt
\* means every segment was proved, each once.
C8_SegmentsInIndexOrder ==
    LET H == session.hooks
        P == SessionCalls("prove_segment")
    IN /\ \A p \in P :
            /\ log[p].a = Cardinality({q \in P : q < p})
            /\ log[p].a < Len(session.segments)
            /\ p > H + 1
            /\ log[p - H - 1].op = "segment_ref.resolve" /\ log[p - H - 1].a = log[p].a
            /\ \A h \in 1..H :
                  /\ log[p - H - 1 + h].op = "on_pre_prove_segment"
                  /\ log[p - H - 1 + h].a = h
                  /\ log[p - H - 1 + h].b = log[p].a
            /\ IsErr(log[p].out) => p = Len(log)
            /\ ~IsErr(log[p].out) =>
                  \/ p = Len(log) /\ (pc = "post_hooks" \/ H = 0)
                  \/ /\ p + H <= Len(log)
                     /\ \A h \in 1..H :
                           /\ log[p + h].op = "on_post_prove_segment"
                           /\ log[p + h].a = h
                           /\ log[p + h].b = log[p].a
            /\ (pc = "post_hooks" /\ H > 0) => (p = Len(log) \/ p + H <= Len(log))
       /\ \A q \in SessionCalls("on_pre_prove_segment") :
            \/ q + (H - log[q].a) = Len(log) /\ pc = "prove"
            \/ /\ q + (H - log[q].a) + 1 \in P
               /\ log[q + (H - log[q].a) + 1].a = log[q].b
       /\ \A q \in SessionCalls("on_post_prove_segment") :
            /\ q - log[q].a \in P
            /\ log[q - log[q].a].a = log[q].b
            /\ ~IsErr(log[q - log[q].a].out)
       /\ Returned =>
            /\ Cardinality(P) = Len(session.segments)
            /\ \A p \in P : ~IsErr(log[p].out)

C8_Witness ==
    /\ Returned
    /\ session.hooks = 2
    /\ Len(session.segments) = 3
    /\ Cardinality(SessionCalls("on_post_prove_segment")) = 6

\* C9: a failed call is the last thing prove_session does: its error is
\* what prove_session returns, and no Receipt.  After a failed segment
\* resolution or segment proof no callback of that segment follows, no
\* later segment is touched, no composite receipt is assembled or verified
\* and compress is not called; a failed assumption unwrapping assembles
\* nothing either; whatever is returned as Ok is a whole Receipt that passed
\* the final integrity check.
C9_FailureAbortsCall ==
    /\ \A p \in Calls :
          IsErr(log[p].out) =>
              /\ p = Len(log)
              /\ pc = "done"
              /\ result = log[p].out
              /\ stack = <<>>
              /\ log[p].op \in {"segment_ref.resolve", "prove_segment"} =>
                    /\ composite_receipt = <<>>
                    /\ inner_receipt = <<>>
                    /\ SessionCalls("verify_integrity") = {}
                    /\ ~CompressCalled
                    /\ \A q \in SessionCalls("on_post_prove_segment") : log[q].b < log[p].a
                    /\ \A q \in SessionCalls("on_pre_prove_segment") : log[q].b <= log[p].a
                    /\ \A q \in SessionCalls("prove_segment") : log[q].a <= log[p].a
                    /\ \A q \in SessionCalls("segment_ref.resolve") : log[q].a <= log[p].a
                    /\ log[p].op = "segment_ref.resolve" =>
                          /\ \A q \in SessionCalls("on_pre_prove_segment") : log[q].b < log[p].a
                          /\ \A q \in SessionCalls("prove_segment") : log[q].a < log[p].a
    /\ (pc = "done" /\ \E j \in 1..Len(session.assumptions) :
                            session.assumptions[j].kind = "Unresolved") =>
          /\ IsErr(result)
          /\ composite_receipt = <<>>
          /\ SessionCalls("verify_integrity") = {}
          /\ ~CompressCalled
    /\ pc # "done" => result = NoResult
    /\ pc = "done" =>
          \/ IsErr(result)
          \/ /\ result.kind = "Ok"
             /\ result.value = Receipt(inner_receipt[1], JournalBytes(session.journal))
             /\ Len(log) > 3
             /\ log[Len(log) - 2].op = "verify_integrity"
             /\ log[Len(log) - 2].a = result.value
             /\ log[Len(log) - 2].out.kind = "Ok"
             /\ NoCallFailed

C9_Witness ==
    /\ pc = "done"
    /\ IsErr(result)
    /\ Len(session.segments) = 3
    /\ session.hooks = 2
    /\ log[Len(log)].op = "prove_segment"
    /\ log[Len(log)].a = 1
    /\ result = log[Len(log)].out

\* C10 as stated (for a composite receipt that has segment receipts): when
\* the composite receipt's integrity check fails or its claim digest differs
\* from the session's, prove_session fails with an error naming the session
\* digest and the receipt digest.
C10_Original ==
    (/\ pc = "done"
     /\ composite_receipt # <<>>
     /\ composite_receipt[1].segments # <<>>
     /\ \A p \in SessionCalls("get_claim") : ~IsErr(log[p].out)
     /\ \/ \E p \in CompositeVerifies : IsErr(log[p].out)
        \/ Digest(CompositeClaim(composite_receipt[1])) # Digest(session.claim)) =>
        /\ IsErr(result)
        /\ result.session = <<Digest(session.claim)>>
        /\ result.receipt = <<Digest(CompositeClaim(composite_receipt[1]))>>

\* C10, what prove_session does: the assembled composite receipt is
\* integrity-checked and then its claim digest compared with the session's
\* before the hash-suite branch.  A failed integrity check makes
\* prove_session return the verifier's error, which names no digest;
\* differing digests make it return the error naming the session digest and
\* the receipt digest (when every get_claim call succeeded); in both cases
\* compress is not called and no Receipt is built.  compress is called by
\* prove_session only on the composite receipt that passed both.
C10_CompositeCheckedBeforeBranch ==
    /\ \A p \in CompositeVerifies :
          IsErr(log[p].out) =>
              /\ pc = "done"
              /\ result = log[p].out
              /\ result.session = <<>> /\ result.receipt = <<>>
              /\ ~CompressCalled
              /\ inner_receipt = <<>>
    /\ (/\ composite_receipt # <<>>
        /\ ~EmptyComposite(composite_receipt[1])
        /\ pc \notin {"verify_composite", "check_composite"}
        /\ Digest(CompositeClaim(composite_receipt[1])) # Digest(session.claim)) =>
          /\ pc = "done"
          /\ IsErr(result)
          /\ ~CompressCalled
          /\ inner_receipt = <<>>
          /\ NoCallFailed =>
                result = [kind |-> "Err",
                          msg |-> "session and composite receipt claim do not match",
                          session |-> <<Digest(session.claim)>>,
                          receipt |-> <<Digest(CompositeClaim(composite_receipt[1]))>>]
    /\ \A c \in Calls :
          (log[c].op = "compress" /\ log[c].level = 1) =>
              /\ composite_receipt = <<log[c].a>>
              /\ c > 3
              /\ log[c - 3].op = "verify_integrity"
              /\ log[c - 3].a = log[c].a
              /\ log[c - 3].out = Ok(log[c].a)
              /\ log[c - 2].op = "get_claim" /\ log[c - 2].out.kind = "Ok"
              /\ log[c - 1].op = "get_claim" /\ log[c - 1].out.kind = "Ok"
              /\ log[c - 2].a = log[c].a /\ log[c - 1].a = session
              /\ Digest(log[c - 2].out.value) = Digest(log[c - 1].out.value)
              /\ log[c - 1].out.value = session.claim
              /\ ~EmptyComposite(log[c].a) =>
                    Digest(CompositeClaim(log[c].a)) = Digest(session.claim)
    /\ inner_receipt # <<>> =>
          /\ CompositeVerifies # {}
          /\ \A p \in CompositeVerifies : ~IsErr(log[p].out)
          /\ ~EmptyComposite(composite_receipt[1]) =>
                Digest(CompositeClaim(composite_receipt[1])) = Digest(session.claim)

C10_Witness ==
    /\ pc = "done"
    /\ hashfn = "poseidon"
    /\ composite_receipt # <<>>
    /\ Len(composite_receipt[1].segments) = 2
    /\ result = MismatchErr(CompositeMismatchMsg, Digest(session.claim),
                            Digest(CompositeClaim(composite_receipt[1])))
    /\ result.session # result.receipt

\* C12 as stated, for compress: a succinct receipt compress has returned
\* was integrity-checked, by itself or inside a Receipt, under the caller's
\* context.
C12_Original ==
    (inner_receipt # <<>> /\ inner_receipt[1].kind = "Succinct") =>
        \E p \in SessionCalls("verify_integrity") :
            /\ log[p].b = ctx
            /\ log[p].out.kind = "Ok"
            /\ \/ log[p].a = inner_receipt[1]
               \/ log[p].a.kind = "Receipt" /\ log[p].a.inner = inner_receipt[1]

\* C12 amended: prove_segment returns a SegmentReceipt only after its
\* integrity check under the context prove_session was called with, and
\* prove_session returns a Receipt only after the integrity check of that
\* Receipt under the same context; every integrity check prove_session makes
\* runs under that context.  compress makes no integrity check: the calls
\* of its activations are compress, lift, join and resolve only, and the
\* succinct receipt it returns is checked only later, inside the Receipt.
C12_ReturnedReceiptsVerified ==
    /\ \A p \in SessionCalls("prove_segment") :
          ~IsErr(log[p].out) => log[p].b = <<ctx>>
    /\ \A k \in 1..Len(segments) :
          \E p \in SessionCalls("prove_segment") :
              log[p].out = segments[k] /\ log[p].b = <<ctx>>
    /\ pc = "post_hooks" =>
          transcript # <<>> /\ transcript[Len(transcript)] = "verify_integrity"
    /\ \A p \in SessionCalls("verify_integrity") :
          log[p].b = ctx /\ log[p].level = 0
    /\ Returned =>
          /\ log[Len(log) - 2].op = "verify_integrity"
          /\ log[Len(log) - 2].a = result.value
          /\ log[Len(log) - 2].b = ctx
          /\ log[Len(log) - 2].out = Ok(result.value.inner)
    /\ \A p \in Calls :
          log[p].level >= 1 => log[p].op \in {"compress", "lift", "join", "resolve"}
    /\ (pc = "wrap" /\ inner_receipt[1].kind = "Succinct") =>
          \A p \in SessionCalls("verify_integrity") :
              /\ log[p].a.kind = "Composite"
              /\ \A c \in SessionCalls("compress") : p < c

C12_Witness ==
    /\ Returned
    /\ ctx # DefaultCtx
    /\ hashfn = "poseidon"
    /\ Len(session.segments) = 2
    /\ result.value.inner.kind = "Succinct"
    /\ Cardinality(SessionCalls("verify_integrity")) = 2
    /\ \A p \in SessionCalls("prove_segment") : log[p].b = <<ctx>>

\* C16: the composite receipt prove_session assembles holds, for the k-th
\* session segment, the receipt the k-th prove_segment call returned, tagged
\* with that segment's index, and nothing else; its assumptions are the
\* inner receipts of the session's assumptions in the listed order; its
\* journal digest is present exactly when the session has a journal, and is
\* that journal's digest; a returned Receipt carries the session journal's
\* bytes, or no bytes when the session has no journal.
C16_CompositeContents ==
    /\ composite_receipt # <<>> =>
          LET cr == composite_receipt[1]
              P == SessionCalls("prove_segment")
          IN /\ Len(cr.segments) = Len(session.segments)
             /\ Cardinality(P) = Len(session.segments)
             /\ \A p \in P :
                   LET k == Cardinality({q \in P : q <= p})
                   IN /\ cr.segments[k] = log[p].out
                      /\ cr.segments[k].index = session.segments[k].index
                      /\ cr.segments[k].hashfn = hashfn
             /\ Len(cr.assumptions) = Len(session.assumptions)
             /\ \A j \in 1..Len(session.assumptions) :
                   /\ session.assumptions[j].kind = "Proven"
                   /\ cr.assumptions[j] = session.assumptions[j].inner
             /\ (cr.journal_digest # <<>>) <=> (session.journal # <<>>)
             /\ session.journal # <<>> => cr.journal_digest = << <<"sha", session.journal[1]>> >>
    /\ Returned =>
          /\ result.value.journal = (IF session.journal = <<>> THEN <<>> ELSE session.journal[1])
          /\ composite_receipt # <<>>
          /\ hashfn # "poseidon" => result.value.inner = composite_receipt[1]

C16_Witness ==
    /\ Returned
    /\ Len(session.segments) = 3
    /\ Len(session.assumptions) = 2
    /\ session.assumptions[1].inner.kind = "Fake"
    /\ session.assumptions[2].inner.kind = "Composite"
    /\ session.journal = << <<7, 0>> >>
    /\ result.value.journal = <<7, 0>>
    /\ Len(result.value.inner.segments) = 3
    /\ result.value.inner.assumptions[1].kind = "Fake"
    /\ result.value.inner.journal_digest # <<>>

Accepted(op) ==
    {p \in SessionCalls(op) :
        /\ log[p].out.kind = "Ok"
        /\ EmptyComposite(IF log[p].a.kind = "Receipt" THEN log[p].a.inner ELSE log[p].a)}

Position(step) ==
    IF \E k \in 1..Len(transcript) : transcript[k] = step
    THEN CHOOSE k \in 1..Len(transcript) : transcript[k] = step
    ELSE 0

Occurrences(step) == Cardinality({k \in 1..Len(transcript) : transcript[k] = step})

ProofOrder ==
    <<"executor.finalize", "commit_group:code", "commit_group:data",
      "adapter.accumulate", "commit_group:accum", "prover.finalize">>

\* C11: in every run of prove_segment, finished or not, each of the steps
\* executor.finalize, commit of the code group, commit of the data group,
\* accumulate, commit of the accumulator group, prover.finalize occurs at
\* most once and only after the step listed before it; the accumulator
\* commit comes after both the code and the data commit, prover.finalize
\* after all three commits, and a run that returns a receipt made each
\* step exactly once.
C11_TranscriptOrder ==
    /\ \A k \in 1..Len(ProofOrder) : Occurrences(ProofOrder[k]) <= 1
    /\ \A k \in 2..Len(ProofOrder) :
          Position(ProofOrder[k]) > 0 =>
              /\ Position(ProofOrder[k - 1]) > 0
              /\ Position(ProofOrder[k - 1]) < Position(ProofOrder[k])
    /\ Position("commit_group:accum") > 0 =>
          /\ 0 < Position("commit_group:code")
          /\ Position("commit_group:code") < Position("commit_group:data")
          /\ Position("commit_group:data") < Position("adapter.accumulate")
          /\ Position("adapter.accumulate") < Position("commit_group:accum")
    /\ Position("prover.finalize") > 0 =>
          \A g \in {"commit_group:code", "commit_group:data", "commit_group:accum"} :
              0 < Position(g) /\ Position(g) < Position("prover.finalize")
    /\ Position("executor.finalize") > 0 =>
          /\ 0 < Position("loader.load")
          /\ Position("loader.load") < Position("executor.finalize")
    /\ (call = "prove_segment" /\ result.kind = "Ok") =>
          \A k \in 1..Len(ProofOrder) : Occurrences(ProofOrder[k]) = 1

C11_Witness ==
    /\ call = "prove_segment"
    /\ pc = "done" /\ result.kind = "Ok"
    /\ Position("commit_group:code") = 5
    /\ Position("commit_group:data") = 6
    /\ Position("commit_group:accum") = 8
    /\ Position("prover.finalize") = 9

Recognized == {"sha-256", "poseidon"}

\* C13 as stated: get_prover_server called with a name other than
\* "sha-256" and "poseidon" returns an error naming the value and no
\* proving service, whatever the dev-mode flag and the compiled backend.
C13_Original ==
    (server # NoResult /\ opts \notin Recognized) =>
        /\ IsErr(server)
        /\ server.hashfn = opts

\* C13 amended: with dev mode off, get_prover_server called with a name
\* other than "sha-256" and "poseidon" fails at once, under every compiled
\* backend, with the error "Unsupported hashfn: <name>", returns no proving
\* service, and nothing is proved; with dev mode on the name is not looked
\* at and the stub service is returned.
C13_UnknownHashfnRejected ==
    (server # NoResult /\ opts \notin Recognized) =>
        /\ ~is_dev_mode =>
              /\ IsErr(server)
              /\ server.msg = "Unsupported hashfn: {}"
              /\ server.hashfn = opts
              /\ pc = "done"
              /\ result = server
              /\ transcript = <<>>
              /\ log = <<>>
        /\ is_dev_mode => server = Ok(DevModeProver)

C13_Witness ==
    /\ ~is_dev_mode
    /\ opts = "SHA-256"
    /\ features = {"cuda", "metal"}
    /\ IsErr(server)
    /\ server.hashfn = "SHA-256"
    /\ pc = "done"

\* C14: with dev mode on get_prover_server writes the dev-mode warning and
\* returns the stub service, never an error; with dev mode off it writes no
\* warning, never returns the stub, and for "sha-256" and "poseidon" returns
\* a ProverImpl of that suite named after the one backend selected: cuda
\* when compiled in, else metal when compiled in, else cpu.
C14_DevModeStub ==
    /\ server = NoResult => stderr = <<>>
    /\ (server # NoResult /\ is_dev_mode) =>
          /\ server = Ok([kind |-> "DevModeProver"])
          /\ stderr = <<"WARNING: proving in dev mode. This will not generate valid, secure proofs.">>
    /\ (server # NoResult /\ ~is_dev_mode) =>
          /\ stderr = <<>>
          /\ server # Ok([kind |-> "DevModeProver"])
          /\ opts \in Recognized =>
                /\ server.kind = "Ok"
                /\ server.value.kind = "ProverImpl"
                /\ server.value.hashfn = opts
                /\ server.value.name \in {"cuda", "metal", "cpu"}
                /\ server.value.name = "cuda" <=> "cuda" \in features
                /\ server.value.name = "metal" <=> ("metal" \in features /\ "cuda" \notin features)
                /\ server.value.name = "cpu" <=> features = {}

C14_Witness ==
    /\ is_dev_mode
    /\ opts = "blake2b"
    /\ features = {"metal"}
    /\ server = Ok(DevModeProver)
    /\ stderr = <<DevModeWarning>>
    /\ pc = "done"

\* C15: a SegmentReceipt returned by prove_segment carries the segment's
\* index, the name of the hash suite of the service's hal and the segment's
\* claim; when the integrity check of the packaged receipt fails the call
\* returns that error and no receipt, and no step of the proof is run a
\* second time: the check is the last step and every step ran at most once.
C15_SegmentReceiptFields ==
    call = "prove_segment" =>
        /\ result.kind = "Ok" =>
              /\ result.value.kind = "SegmentReceipt"
              /\ result.value.index = segment.index
              /\ result.value.hashfn = server.value.hashfn
              /\ result.value.hashfn = opts
              /\ result.value.claim = segment.claim
              /\ log # <<>> /\ log[Len(log)].out = Ok(result.value)
        /\ \A p \in 1..Len(log) :
              (log[p].op = "verify_integrity" /\ IsErr(log[p].out)) =>
                  /\ pc = "done"
                  /\ result = log[p].out
                  /\ p = Len(log)
        /\ Len(log) <= 1
        /\ \A k \in 1..Len(transcript) : Occurrences(transcript[k]) = 1
        /\ Position("verify_integrity") > 0 =>
              pc = "done" /\ Position("verify_integrity") = Len(transcript)

C15_Witness ==
    /\ call = "prove_segment"
    /\ pc = "done"
    /\ features = {"cuda"}
    /\ segment.index = 2
    /\ result = Ok(SegmentReceipt(2, "poseidon", segment.claim))

\* Byte k (0 = least significant) of a u32.
ByteOf(w, k) ==
    IF k < 2 THEN (w.lo \div (256 ^ k)) % 256 ELSE (w.hi \div (256 ^ (k - 2))) % 256

\* C18: the vector prepare_globals builds has OUTPUT_SIZE entries: zero in
\* the first DIGEST_WORDS*WORD_SIZE; then the WORD_SIZE bytes of the
\* starting program counter, least significant first, each in 0..255; then,
\* at offset i*WORD_SIZE+j of the next DIGEST_WORDS*WORD_SIZE entries, byte j
\* (least significant first) of word i of the starting image's root digest;
\* the INVALID marker everywhere after.
C18_GlobalsLayout ==
    io # <<>> =>
        LET input == DIGEST_WORDS * WORD_SIZE
            image == input + WORD_SIZE
        IN /\ Len(io) = OUTPUT_SIZE
           /\ \A k \in 0..(input - 1) : io[k + 1] = 0
           /\ \A k \in 0..(WORD_SIZE - 1) :
                 /\ io[input + k + 1] = ByteOf(segment.pre_image.pc, k)
                 /\ io[input + k + 1] \in 0..255
           /\ \A i \in 0..(DIGEST_WORDS - 1), j \in 0..(WORD_SIZE - 1) :
                 /\ io[image + i * WORD_SIZE + j + 1] = ByteOf(segment.pre_image.root[i + 1], j)
                 /\ io[image + i * WORD_SIZE + j + 1] \in 0..255
           /\ \A k \in (image + DIGEST_WORDS * WORD_SIZE)..(OUTPUT_SIZE - 1) : io[k + 1] = -1

C18_Witness ==
    /\ io # <<>>
    /\ segment.pre_image.pc = U32(258, 772)
    /\ <<io[33], io[34], io[35], io[36]>> = <<4, 3, 2, 1>>
    /\ io[32] = 0
    /\ io[68] # -1 /\ io[69] = -1

====
